---- MODULE Spec2Model ----
(***************************************************************************)
(* Model of protoc-gen-twirp_ruby (src/protoc-gen-twirp_ruby/main.go).     *)
(*                                                                         *)
(* An optional field (a nil pointer) is a sequence of length 0 or 1.       *)
(* A string is a sequence of one-character strings; a rune outside ASCII   *)
(* is one element named by its code point ("U+00C9").  A line printed to   *)
(* the buffer is a record of the format template and its arguments.        *)
(***************************************************************************)
EXTENDS Integers, Sequences, FiniteSets, TLC

VARIABLES
    pc,                   \* position in main / Generate / generateRubyCode
    genReq,               \* the request read from stdin
    reg,                  \* generator.reg
    genFiles,             \* generator.genFiles (pointers: indexes of ProtoFile)
    fileToGoPackageName,  \* generator.fileToGoPackageName
    resp,                 \* resp.File of Generate
    fi,                   \* index of Generate's loop over genFiles
    b,                    \* the buffer of generateRubyCode
    indent,               \* indent of generateRubyCode
    modules,              \* modules of generateRubyCode
    mi,                   \* index of the loop that opens the modules
    si,                   \* index of the loop over file.Service
    mti,                  \* index of the loop over service.GetMethod()
    ci,                   \* index of the loop that closes the modules
    stdout,               \* the responses written to os.Stdout
    failure,              \* the panic value or Fail message, Nil if none
    cpc,    \* position of the identifier-transformer run
    cin,    \* the identifier under transformation
    cval,   \* the value produced by the last transformation
    cs1     \* snakeCase(cin), once computed

genvars == <<pc, genReq, reg, genFiles, fileToGoPackageName, resp, fi, b,
             indent, modules, mi, si, mti, ci, stdout, failure>>

casevars == <<cpc, cin, cval, cs1>>

vars == <<genvars, casevars>>

Nil == "nil"

-----------------------------------------------------------------------------
(* Characters *)

Lowers == <<"a","b","c","d","e","f","g","h","i","j","k","l","m",
            "n","o","p","q","r","s","t","u","v","w","x","y","z">>
Uppers == <<"A","B","C","D","E","F","G","H","I","J","K","L","M",
            "N","O","P","Q","R","S","T","U","V","W","X","Y","Z">>
Digits == {"0","1","2","3","4","5","6","7","8","9"}

\* Runes outside ASCII: an upper case letter and its lower case form.
UpperRune == "U+00C9"
LowerRune == "U+00E9"

IndexIn(seq, c) == CHOOSE i \in 1..Len(seq) : seq[i] = c

isASCIILower(c) == \E i \in 1..Len(Lowers) : Lowers[i] = c

isASCIIUpper(c) == \E i \in 1..Len(Uppers) : Uppers[i] = c

isASCIIDigit(c) == c \in Digits

\* unicode.IsUpper
IsUpper(r) == isASCIIUpper(r) \/ r = UpperRune

\* unicode.ToLower
ToLower(r) ==
    IF isASCIIUpper(r) THEN Lowers[IndexIn(Uppers, r)]
    ELSE IF r = UpperRune THEN LowerRune
    ELSE r

\* c ^= ' ' on an ASCII lower case letter
MakeCapital(c) == Uppers[IndexIn(Lowers, c)]

-----------------------------------------------------------------------------
(* Identifier transformer *)

RECURSIVE snakeLoop(_, _, _)
snakeLoop(s, i, buf) ==
    IF i > Len(s) THEN buf
    ELSE LET r == s[i]
             sep == IF IsUpper(r) /\ i > 1 THEN <<"_">> ELSE <<>>
         IN snakeLoop(s, i + 1, buf \o sep \o <<ToLower(r)>>)

\* A variant that lower-cases but never inserts the separator.
snakeCaseNoSep(s) == [i \in 1..Len(s) |-> ToLower(s[i])]

snakeCase(s) == snakeLoop(s, 1, <<>>)

\* Index of the last element of the run of lower case letters and digits
\* that follows position i (i itself when there is none).
RECURSIVE runEnd(_, _)
runEnd(s, i) ==
    IF i + 1 <= Len(s) /\ (isASCIILower(s[i + 1]) \/ isASCIIDigit(s[i + 1]))
    THEN runEnd(s, i + 1)
    ELSE i

RECURSIVE camelLoop(_, _, _)
camelLoop(s, i, t) ==
    IF i > Len(s) THEN t
    ELSE LET c == s[i] IN
         IF c = "_" /\ i + 1 <= Len(s)
              /\ (isASCIILower(s[i + 1]) \/ isASCIIDigit(s[i + 1]))
         THEN camelLoop(s, i + 1, t)
         ELSE LET c2 == IF isASCIILower(c) THEN MakeCapital(c) ELSE c
                  j  == runEnd(s, i)
              IN camelLoop(s, j + 1, t \o <<c2>> \o SubSeq(s, i + 1, j))

\* The rule of camelCase's doc comment: an interior underscore is dropped
\* only when a lower case letter follows it.
RECURSIVE camelLoopDoc(_, _, _)
camelLoopDoc(s, i, t) ==
    IF i > Len(s) THEN t
    ELSE LET c == s[i] IN
         IF c = "_" /\ i + 1 <= Len(s) /\ isASCIILower(s[i + 1])
         THEN camelLoopDoc(s, i + 1, t)
         ELSE LET c2 == IF isASCIILower(c) THEN MakeCapital(c) ELSE c
                  j  == runEnd(s, i)
              IN camelLoopDoc(s, j + 1, t \o <<c2>> \o SubSeq(s, i + 1, j))

camelCaseDoc(s) ==
    IF s = <<>> THEN <<>>
    ELSE IF s[1] = "_" THEN camelLoopDoc(s, 2, <<"X">>)
    ELSE camelLoopDoc(s, 1, <<>>)

camelCase(s) ==
    IF s = <<>> THEN <<>>
    ELSE IF s[1] = "_" THEN camelLoop(s, 2, <<"X">>)
    ELSE camelLoop(s, 1, <<>>)

-----------------------------------------------------------------------------
(* Strings and paths *)

SeqsUpTo(S, n) == UNION {[1..k -> S] : k \in 0..n}

\* Does the separator sep occur in s at position i?
MatchAt(s, sep, i) ==
    /\ i + Len(sep) - 1 <= Len(s)
    /\ SubSeq(s, i, i + Len(sep) - 1) = sep

\* strings.Split(s, sep), sep not empty
RECURSIVE SplitLoop(_, _, _, _, _)
SplitLoop(s, sep, i, start, acc) ==
    IF i > Len(s) THEN Append(acc, SubSeq(s, start, Len(s)))
    ELSE IF MatchAt(s, sep, i)
         THEN SplitLoop(s, sep, i + Len(sep), i + Len(sep),
                        Append(acc, SubSeq(s, start, i - 1)))
         ELSE SplitLoop(s, sep, i + 1, start, acc)

Split(s, sep) == SplitLoop(s, sep, 1, 1, <<>>)

\* strings.Join(parts, sep)
RECURSIVE Join(_, _)
Join(parts, sep) ==
    IF parts = <<>> THEN <<>>
    ELSE IF Len(parts) = 1 THEN parts[1]
    ELSE parts[1] \o sep \o Join(Tail(parts), sep)

\* Index of the last occurrence of c in s, 0 if there is none.
LastIndex(s, c) ==
    IF \E i \in 1..Len(s) : s[i] = c
    THEN CHOOSE i \in 1..Len(s) : s[i] = c /\ \A j \in (i + 1)..Len(s) : s[j] # c
    ELSE 0

RECURSIVE TrimSlashes(_)
TrimSlashes(p) ==
    IF Len(p) > 0 /\ p[Len(p)] = "/" THEN TrimSlashes(SubSeq(p, 1, Len(p) - 1))
    ELSE p

\* filepath.Base
onlyBase(path) ==
    IF path = <<>> THEN <<".">>
    ELSE LET p == TrimSlashes(path) IN
         IF p = <<>> THEN <<"/">>
         ELSE SubSeq(p, LastIndex(p, "/") + 1, Len(p))

\* strings.TrimSuffix(path, filepath.Ext(path)): the extension starts at the
\* last dot of the last path element.
noExtension(path) ==
    LET dot == LastIndex(path, ".") IN
    IF dot > LastIndex(path, "/") THEN SubSeq(path, 1, dot - 1) ELSE path

TwirpSuffix == <<"_","t","w","i","r","p",".","r","b">>
PbSuffix == <<"_","p","b",".","r","b">>

DoubleColon == <<":", ":">>
Dot == <<".">>

-----------------------------------------------------------------------------
(* The descriptors a request is drawn from *)

MaxFiles == 2
MaxReq == 2

FooBar == <<"f","o","o",".","b","a","r">>
MyDep == <<"m","y",".","d","e","p">>
BazQux == <<"B","a","z",":",":","q","u","x","_","m">>

NameA == <<"d","/","a",".","p">>
NameB == <<"b",".","p">>
NameC == <<"c",".","p">>
NameNone == <<"x",".","p">>

SayHello == <<"S","a","y","H","e","l","l","o">>
say_hello == <<"s","a","y","_","h","e","l","l","o">>

Msg(ref, name, parent) == [ref |-> ref, name |-> name, parent |-> parent]

Method(name, in, out) == [name |-> name, inputType |-> in, outputType |-> out]

Service(name, methods) == [name |-> name, method |-> methods]

\* d/a.p: package foo.bar, one service; its second method refers to c.p.
FileA ==
    [name |-> NameA, package |-> FooBar, rubyPackage |-> <<>>,
     messageType |-> <<Msg(".foo.bar.Req", <<"R","e","q">>, Nil),
                       Msg(".foo.bar.outer_msg",
                           <<"o","u","t","e","r","_","m","s","g">>, Nil),
                       Msg(".foo.bar.outer_msg.Inner",
                           <<"I","n","n","e","r">>, ".foo.bar.outer_msg")>>,
     service |-> <<Service(<<"G","r","e","e","t","e","r">>,
                     <<Method(SayHello, ".foo.bar.Req", ".foo.bar.outer_msg.Inner"),
                       Method(<<"G","e","t","D","e","p">>, ".my.dep.Dep",
                              ".foo.bar.Req")>>)>>]

\* b.p: no package, two services; its methods refer to d/a.p.
FileB ==
    [name |-> NameB, package |-> <<>>, rubyPackage |-> <<>>,
     messageType |-> <<Msg(".Loc", <<"L","o","c">>, Nil)>>,
     service |-> <<Service(<<"l","o","c","_","s","v","c">>,
                     <<Method(<<"F","i","n","d">>, ".Loc", ".foo.bar.Req"),
                       Method(<<"l","i","s","t","_","a","l","l">>,
                              ".foo.bar.outer_msg.Inner", ".Loc")>>),
                   Service(<<"E","m","p","t","y">>, <<>>)>>]

\* c.p: package my.dep with option ruby_package = "Baz::qux_m", no service.
FileC ==
    [name |-> NameC, package |-> MyDep, rubyPackage |-> <<BazQux>>,
     messageType |-> <<Msg(".my.dep.Dep", <<"D","e","p">>, Nil)>>,
     service |-> <<>>]

Pool == <<FileA, FileB, FileC>>

Names == {NameA, NameB, NameC, NameNone}

Requests ==
    [ProtoFile : SeqsUpTo(1..Len(Pool), MaxFiles),
     FileToGenerate : SeqsUpTo(Names, MaxReq)]

\* The descriptor behind the pointer i (an index of req.ProtoFile).
Desc(req, i) == Pool[req.ProtoFile[i]]

-----------------------------------------------------------------------------
(* internal/gen/typemap *)

\* typemap.New: every message of every file, by fully-qualified name; a
\* definition keeps its descriptor's name, its parent and its file.
Registry(req) ==
    LET defines(i, ref) ==
            \E k \in 1..Len(Desc(req, i).messageType) :
                Desc(req, i).messageType[k].ref = ref
        refs == UNION {{Desc(req, i).messageType[k].ref :
                            k \in 1..Len(Desc(req, i).messageType)} :
                       i \in 1..Len(req.ProtoFile)}
    IN [ref \in refs |->
          LET i == CHOOSE j \in 1..Len(req.ProtoFile) :
                      /\ defines(j, ref)
                      /\ \A l \in (j + 1)..Len(req.ProtoFile) : ~defines(l, ref)
              m == CHOOSE m \in {Desc(req, i).messageType[k] :
                                    k \in 1..Len(Desc(req, i).messageType)} :
                      m.ref = ref
          IN [isNil |-> FALSE, File |-> i, Name |-> m.name, Parent |-> m.parent]]

\* The nil *MessageDefinition
NilDef == [isNil |-> TRUE]

\* Registry.MessageDefinition: nil when the name is not registered
MessageDefinition(r, protoType) ==
    IF protoType \in DOMAIN r THEN r[protoType] ELSE NilDef

\* MessageDefinition.Lineage: the enclosing definitions, outermost first
RECURSIVE Lineage(_, _)
Lineage(r, def) ==
    IF def.Parent = Nil THEN <<>>
    ELSE Append(Lineage(r, r[def.Parent]), r[def.Parent])

-----------------------------------------------------------------------------
(* The generator *)

\* The version constant of the build
Version == "Version"

\* print(buf, tpl, args...): one line, kept as its template and arguments
print(buf, tpl, args) == Append(buf, [tpl |-> tpl, args |-> args])

fileDescSliceContains(slice, f) == \E k \in 1..Len(slice) : slice[k] = f

\* splitRubyConstants
splitRubyConstants(protoPckgName) ==
    IF protoPckgName = <<>> THEN <<>>
    ELSE LET parts == Split(protoPckgName, Dot)
         IN [k \in 1..Len(parts) |-> camelCase(parts[k])]

\* The pointers findProtoFilesToGenerate's first loop appends for the
\* names from position k on: for each name, every file with that name.
RECURSIVE matchesFrom(_, _)
matchesFrom(req, k) ==
    IF k > Len(req.FileToGenerate) THEN <<>>
    ELSE SelectSeq([i \in 1..Len(req.ProtoFile) |-> i],
                   LAMBDA i : Desc(req, i).name = req.FileToGenerate[k])
         \o matchesFrom(req, k + 1)

\* A variant that stops at the first name that matches no file.
RECURSIVE matchesUntilMiss(_, _)
matchesUntilMiss(req, k) ==
    IF k > Len(req.FileToGenerate) THEN <<>>
    ELSE LET m == SelectSeq([i \in 1..Len(req.ProtoFile) |-> i],
                      LAMBDA i : Desc(req, i).name = req.FileToGenerate[k])
         IN IF m = <<>> THEN <<>> ELSE m \o matchesUntilMiss(req, k + 1)

selectStopAtMiss(req) == matchesUntilMiss(req, 1)

selectGenFiles(req) == matchesFrom(req, 1)

\* A variant that records the package of every file, generated or not.
packageOfAll(req, files) ==
    [i \in 1..Len(req.ProtoFile) |-> Desc(req, i).package]

\* findProtoFilesToGenerate's second loop
packageNames(req, files) ==
    [i \in 1..Len(req.ProtoFile) |->
        IF fileDescSliceContains(files, i) THEN <<>> ELSE Desc(req, i).package]

\* The type chain of toRubyType: lineage and own name, camel-cased
typeName(r, def) ==
    LET parents == Lineage(r, def)
        prefixes == [k \in 1..Len(parents) |->
                        camelCase(parents[k].Name) \o DoubleColon]
    IN Join(prefixes, <<>>) \o camelCase(def.Name)

\* A variant that never panics: an unknown type becomes the empty string.
toRubyTypeLenient(r, pkgs, protoType) ==
    LET def == MessageDefinition(r, protoType) IN
    IF def.isNil THEN [panic |-> FALSE, value |-> <<>>]
    ELSE [panic |-> FALSE, value |-> typeName(r, def)]

\* toRubyType: panics on an unregistered type, otherwise prefix + name
toRubyType(r, pkgs, protoType) ==
    LET def == MessageDefinition(r, protoType) IN
    IF def.isNil THEN [panic |-> TRUE, value |-> protoType]
    ELSE LET pkg == pkgs[def.File]
             prefix == IF pkg # <<>>
                       THEN Join(splitRubyConstants(pkg), DoubleColon) \o DoubleColon
                       ELSE <<>>
         IN [panic |-> FALSE, value |-> prefix \o typeName(r, def)]

\* A variant that camel-cases the segments of the ruby_package option.
modulesCamelCased(file) ==
    IF file.rubyPackage # <<>>
    THEN LET parts == Split(file.rubyPackage[1], DoubleColon)
         IN [k \in 1..Len(parts) |-> camelCase(parts[k])]
    ELSE splitRubyConstants(file.package)

\* The modules of generateRubyCode
modulesOf(file) ==
    IF file.rubyPackage # <<>>
    THEN Split(file.rubyPackage[1], DoubleColon)
    ELSE splitRubyConstants(file.package)

\* The file under generation, its current service and that service's methods
CurFile == Desc(genReq, genFiles[fi])
CurService == CurFile.service[si]
CurMethods == CurService.method

Init ==
    /\ pc = "main"
    /\ genReq \in Requests
    /\ reg = <<>>
    /\ genFiles = <<>>
    /\ fileToGoPackageName = <<>>
    /\ resp = <<>>
    /\ fi = 0
    /\ b = <<>>
    /\ indent = 0
    /\ modules = <<>>
    /\ mi = 0
    /\ si = 0
    /\ mti = 0
    /\ ci = 0
    /\ stdout = <<>>
    /\ failure = Nil
    /\ cpc = "idle"
    /\ cin = <<>>
    /\ cval = <<>>
    /\ cs1 = <<>>

\* readGenRequest: Fail when no file is to be generated
ReadGenRequestFail ==
    /\ pc = "main"
    /\ Len(genReq.FileToGenerate) = 0
    /\ pc' = "exit"
    /\ failure' = "no files to generate"
    /\ UNCHANGED <<genReq, reg, genFiles, fileToGoPackageName, resp, fi, b,
                   indent, modules, mi, si, mti, ci, stdout, casevars>>

\* readGenRequest returns; newGenerator builds the registry
NewGenerator ==
    /\ pc = "main"
    /\ Len(genReq.FileToGenerate) # 0
    /\ reg' = Registry(genReq)
    /\ genFiles' = <<>>
    /\ fileToGoPackageName' = <<>>
    /\ pc' = "find"
    /\ UNCHANGED <<genReq, resp, fi, b, indent, modules, mi, si, mti, ci,
                   stdout, failure, casevars>>

\* Generate up to its loop: findProtoFilesToGenerate
FindProtoFilesToGenerate ==
    /\ pc = "find"
    /\ resp' = <<>>
    /\ genFiles' = genFiles \o selectGenFiles(genReq)
    /\ fileToGoPackageName' = packageNames(genReq, genFiles')
    /\ fi' = 1
    /\ pc' = "generate"
    /\ UNCHANGED <<genReq, reg, b, indent, modules, mi, si, mti, ci, stdout,
                   failure, casevars>>

\* generateRubyCode up to its first loop
BeginFile ==
    /\ pc = "generate"
    /\ fi <= Len(genFiles)
    /\ LET pbFileRelativePath == noExtension(onlyBase(CurFile.name)) \o PbSuffix
           b1 == print(<<>>,
                   "# Code generated by protoc-gen-twirp_ruby %s, DO NOT EDIT.",
                   <<Version>>)
           b2 == print(b1, "require 'twirp'", <<>>)
           b3 == print(b2, "require_relative '%s'", <<pbFileRelativePath>>)
       IN b' = print(b3, "", <<>>)
    /\ indent' = 0
    /\ modules' = modulesOf(CurFile)
    /\ mi' = 1
    /\ si' = 1
    /\ mti' = 0
    /\ ci' = 1
    /\ pc' = "emit"
    /\ UNCHANGED <<genReq, reg, genFiles, fileToGoPackageName, resp, fi,
                   stdout, failure, casevars>>

\* for _, m := range modules
OpenModule ==
    /\ pc = "emit"
    /\ mi <= Len(modules)
    /\ b' = print(b, "%smodule %s", <<indent, modules[mi]>>)
    /\ indent' = indent + 1
    /\ mi' = mi + 1
    /\ UNCHANGED <<pc, genReq, reg, genFiles, fileToGoPackageName, resp, fi,
                   modules, si, mti, ci, stdout, failure, casevars>>

\* for i, service := range file.Service: the lines before the methods
BeginService ==
    /\ pc = "emit"
    /\ mi > Len(modules)
    /\ si <= Len(CurFile.service)
    /\ LET svcName == CurService.name
           pkgName == CurFile.package
           b1 == print(b, "%sclass %sService < Twirp::Service",
                       <<indent, camelCase(svcName)>>)
           b2 == IF pkgName # <<>>
                 THEN print(b1, "%s  package '%s'", <<indent, pkgName>>)
                 ELSE b1
       IN b' = print(b2, "%s  service '%s'", <<indent, svcName>>)
    /\ mti' = 1
    /\ pc' = "rpc"
    /\ UNCHANGED <<genReq, reg, genFiles, fileToGoPackageName, resp, fi,
                   indent, modules, mi, si, ci, stdout, failure, casevars>>

\* The two types of the current method, resolved
RpcInput == toRubyType(reg, fileToGoPackageName, CurMethods[mti].inputType)
RpcOutput == toRubyType(reg, fileToGoPackageName, CurMethods[mti].outputType)

\* for _, method := range service.GetMethod(): both types are registered
EmitRpc ==
    /\ pc = "rpc"
    /\ mti <= Len(CurMethods)
    /\ ~RpcInput.panic
    /\ ~RpcOutput.panic
    /\ b' = print(b, "%s  rpc :%s, %s, %s, :ruby_method => :%s",
                  <<indent, CurMethods[mti].name, RpcInput.value,
                    RpcOutput.value, snakeCase(CurMethods[mti].name)>>)
    /\ mti' = mti + 1
    /\ UNCHANGED <<pc, genReq, reg, genFiles, fileToGoPackageName, resp, fi,
                   indent, modules, mi, si, ci, stdout, failure, casevars>>

\* for _, method := range service.GetMethod(): toRubyType panics on the
\* input type or, if that is registered, on the output type
EmitRpcPanic ==
    /\ pc = "rpc"
    /\ mti <= Len(CurMethods)
    /\ RpcInput.panic \/ RpcOutput.panic
    /\ failure' = IF RpcInput.panic THEN RpcInput.value ELSE RpcOutput.value
    /\ pc' = "panic"
    /\ UNCHANGED <<genReq, reg, genFiles, fileToGoPackageName, resp, fi, b,
                   indent, modules, mi, si, mti, ci, stdout, casevars>>

\* The rest of the service loop's body: the end of the class, the client
EndService ==
    /\ pc = "rpc"
    /\ mti > Len(CurMethods)
    /\ LET svcName == CurService.name
           b1 == print(b, "%send", <<indent>>)
           b2 == print(b1, "", <<>>)
           b3 == print(b2, "%sclass %sClient < Twirp::Client",
                       <<indent, camelCase(svcName)>>)
           b4 == print(b3, "%s  client_for %sService",
                       <<indent, camelCase(svcName)>>)
           b5 == print(b4, "%send", <<indent>>)
       IN b' = IF si < Len(CurFile.service) THEN print(b5, "", <<>>) ELSE b5
    /\ si' = si + 1
    /\ pc' = "emit"
    /\ UNCHANGED <<genReq, reg, genFiles, fileToGoPackageName, resp, fi,
                   indent, modules, mi, mti, ci, stdout, failure, casevars>>

\* A variant that prints the end line before it decrements the indent.
CloseModulePrintFirst ==
    /\ pc = "emit"
    /\ mi > Len(modules)
    /\ si > Len(CurFile.service)
    /\ ci <= Len(modules)
    /\ b' = print(b, "%send", <<indent>>)
    /\ indent' = indent - 1
    /\ ci' = ci + 1
    /\ UNCHANGED <<pc, genReq, reg, genFiles, fileToGoPackageName, resp, fi,
                   modules, mi, si, mti, stdout, failure, casevars>>

\* for range modules
CloseModule ==
    /\ pc = "emit"
    /\ mi > Len(modules)
    /\ si > Len(CurFile.service)
    /\ ci <= Len(modules)
    /\ indent' = indent - 1
    /\ b' = print(b, "%send", <<indent'>>)
    /\ ci' = ci + 1
    /\ UNCHANGED <<pc, genReq, reg, genFiles, fileToGoPackageName, resp, fi,
                   modules, mi, si, mti, stdout, failure, casevars>>

\* generateRubyCode returns; Generate appends the file to the response
EndFile ==
    /\ pc = "emit"
    /\ mi > Len(modules)
    /\ si > Len(CurFile.service)
    /\ ci > Len(modules)
    /\ LET twirpFileName == noExtension(CurFile.name) \o TwirpSuffix
       IN resp' = Append(resp, [Name |-> twirpFileName, Content |-> b])
    /\ fi' = fi + 1
    /\ pc' = "generate"
    /\ UNCHANGED <<genReq, reg, genFiles, fileToGoPackageName, b, indent,
                   modules, mi, si, mti, ci, stdout, failure, casevars>>

\* Generate returns; writeGenResponse writes the response
WriteGenResponse ==
    /\ pc = "generate"
    /\ fi > Len(genFiles)
    /\ stdout' = Append(stdout, resp)
    /\ pc' = "done"
    /\ UNCHANGED <<genReq, reg, genFiles, fileToGoPackageName, resp, fi, b,
                   indent, modules, mi, si, mti, ci, failure, casevars>>

Next ==
    \/ ReadGenRequestFail
    \/ NewGenerator
    \/ FindProtoFilesToGenerate
    \/ BeginFile
    \/ OpenModule
    \/ BeginService
    \/ EmitRpc
    \/ EmitRpcPanic
    \/ EndService
    \/ CloseModule
    \/ EndFile
    \/ WriteGenResponse

Spec == Init /\ [][Next]_vars

-----------------------------------------------------------------------------
(* Properties of the generator *)

RpcTpl == "%s  rpc :%s, %s, %s, :ruby_method => :%s"
ModuleTpl == "%smodule %s"
EndTpl == "%send"

\* Templates whose first argument is the indent
Indented(tpl) == tpl \in {ModuleTpl, EndTpl, RpcTpl,
                          "%sclass %sService < Twirp::Service",
                          "%s  package '%s'", "%s  service '%s'",
                          "%sclass %sClient < Twirp::Client",
                          "%s  client_for %sService"}

\* File i of the request is named in the explicit request list.
Requested(req, i) ==
    \E k \in 1..Len(req.FileToGenerate) : req.FileToGenerate[k] = Desc(req, i).name

\* The messages that file i of the request declares
MessagesOf(req, i) ==
    {Desc(req, i).messageType[k] : k \in 1..Len(Desc(req, i).messageType)}

Declares(req, i, ref) == \E m \in MessagesOf(req, i) : m.ref = ref

Registered(req, ref) == \E i \in 1..Len(req.ProtoFile) : Declares(req, i, ref)

\* Some method of some service of some requested file refers to a type
\* that no file of the request declares.
Unresolved(req) ==
    \E i \in 1..Len(req.ProtoFile) :
        /\ Requested(req, i)
        /\ \E s \in 1..Len(Desc(req, i).service) :
             \E m \in 1..Len(Desc(req, i).service[s].method) :
                LET method == Desc(req, i).service[s].method[m]
                IN \/ ~Registered(req, method.inputType)
                   \/ ~Registered(req, method.outputType)

\* The message a registered reference names, and the file that declares it
MessageOf(req, ref) ==
    CHOOSE m \in UNION {MessagesOf(req, i) : i \in 1..Len(req.ProtoFile)} :
        m.ref = ref

OwnerRequested(req, ref) ==
    \E i \in 1..Len(req.ProtoFile) : Declares(req, i, ref) /\ Requested(req, i)

OwnerOf(req, ref) ==
    CHOOSE i \in 1..Len(req.ProtoFile) : Declares(req, i, ref)

\* The camel-cased names of the enclosing types, outermost first, then
\* the type's own, joined with "::"
RECURSIVE Chain(_, _)
Chain(req, ref) ==
    LET m == MessageOf(req, ref) IN
    IF m.parent = Nil THEN camelCase(m.name)
    ELSE Chain(req, m.parent) \o DoubleColon \o camelCase(m.name)

\* An rpc line has just been printed: it is the last line of the buffer
\* and belongs to method mti - 1 of the current service.
RpcPrinted == pc = "rpc" /\ mti > 1

LastLine == b[Len(b)]
LastMethod == CurMethods[mti - 1]

\* C1: if a method of a requested file refers to a type that is not
\* registered, no response is ever written: Generate does not return.
C1_AllOrNothing ==
    Unresolved(genReq) => (stdout = <<>> /\ pc # "done")

C1_Witness ==
    /\ pc = "panic"
    /\ Unresolved(genReq)
    /\ Len(resp) >= 1
    /\ stdout = <<>>

\* C2: a type whose file is in the generate set resolves to its type chain
\* alone, without any namespace prefix, whichever file refers to it.
C2_NoPrefix ==
    RpcPrinted =>
        /\ OwnerRequested(genReq, LastMethod.inputType)
             => LastLine.args[3] = Chain(genReq, LastMethod.inputType)
        /\ OwnerRequested(genReq, LastMethod.outputType)
             => LastLine.args[4] = Chain(genReq, LastMethod.outputType)

C2_Witness ==
    /\ RpcPrinted
    /\ CurFile.name = NameB
    /\ LastMethod.inputType = ".foo.bar.outer_msg.Inner"
    /\ LastLine.args[3] =
         <<"O","u","t","e","r","M","s","g",":",":","I","n","n","e","r">>

\* The prefix the namespace segments of a file give
NamespacePrefix(file) ==
    IF modulesOf(file) = <<>> THEN <<>>
    ELSE Join(modulesOf(file), DoubleColon) \o DoubleColon

\* C3: a type whose file is not in the generate set resolves to that
\* file's namespace segments (the override's when it has one, its package's
\* otherwise) joined with "::", then "::", then the type chain.
C3_DependencyPrefix ==
    RpcPrinted =>
        /\ ~OwnerRequested(genReq, LastMethod.inputType)
             => LastLine.args[3] =
                  NamespacePrefix(Desc(genReq, OwnerOf(genReq, LastMethod.inputType)))
                  \o Chain(genReq, LastMethod.inputType)
        /\ ~OwnerRequested(genReq, LastMethod.outputType)
             => LastLine.args[4] =
                  NamespacePrefix(Desc(genReq, OwnerOf(genReq, LastMethod.outputType)))
                  \o Chain(genReq, LastMethod.outputType)

\* C4: once findProtoFilesToGenerate has run, genFiles holds every file at
\* most once, and the response has at most one pair for each file.
C4_GenFilesUnique ==
    pc \notin {"main", "find"} =>
        /\ \A j, k \in 1..Len(genFiles) : j # k => genFiles[j] # genFiles[k]
        /\ pc = "done" =>
             Len(stdout[1]) <= Cardinality({genFiles[k] : k \in 1..Len(genFiles)})

\* The shape of a finished file with the segments segs.
BalancedFile(buf, segs) ==
    LET N == Len(segs) IN
    /\ Len(buf) >= 4 + 2 * N
    /\ \A k \in 1..N :
         /\ buf[4 + k] = [tpl |-> ModuleTpl, args |-> <<k - 1, segs[k]>>]
         /\ buf[Len(buf) - N + k] = [tpl |-> EndTpl, args |-> <<N - k>>]
    /\ \A j \in (4 + N + 1)..(Len(buf) - N) :
         /\ buf[j].tpl # ModuleTpl
         /\ Indented(buf[j].tpl) => buf[j].args[1] = N

\* C5: a finished file has its N module lines at depths 0..N-1, then its
\* service and client lines at depth N, then N end lines at depths N-1..0;
\* the depth is never negative and is 0 when no file is being emitted.
C5_Balanced ==
    /\ indent >= 0
    /\ pc \notin {"emit", "rpc", "panic"} => indent = 0
    /\ pc \in {"emit", "rpc"} =>
         \A j \in (4 + Len(modules) + 1)..Len(b) :
            (Indented(b[j].tpl) /\ ci = 1) => b[j].args[1] = Len(modules)
    /\ \A k \in 1..Len(resp) :
         BalancedFile(resp[k].Content, modulesOf(Desc(genReq, genFiles[k])))

C5_Witness ==
    /\ pc = "done"
    /\ \E k \in 1..Len(stdout[1]) :
         /\ Len(modulesOf(Desc(genReq, genFiles[k]))) = 2
         /\ Len(Desc(genReq, genFiles[k]).service) > 0

\* The names of the module lines of a buffer, in order
RECURSIVE OpenedModules(_)
OpenedModules(buf) ==
    IF buf = <<>> THEN <<>>
    ELSE IF buf[1].tpl = ModuleTpl
         THEN <<buf[1].args[2]>> \o OpenedModules(Tail(buf))
         ELSE OpenedModules(Tail(buf))

CamelCased(parts) == [k \in 1..Len(parts) |-> camelCase(parts[k])]

AllOpened == pc = "rpc" \/ (pc = "emit" /\ mi > Len(modules))

\* C6 (as stated): the modules opened for a file are the override split on
\* "::" with each segment camel-cased, or else the package split on "." with
\* each segment camel-cased; none for an empty package without override.
C6_SegmentsCamelCased ==
    AllOpened =>
        OpenedModules(b) =
            IF CurFile.rubyPackage # <<>>
            THEN CamelCased(Split(CurFile.rubyPackage[1], DoubleColon))
            ELSE IF CurFile.package = <<>> THEN <<>>
            ELSE CamelCased(Split(CurFile.package, Dot))

\* C6 (amended): the modules opened for a file are the segments of the
\* override split on "::", each taken as written, or else the package split
\* on "." with each segment camel-cased; none for an empty package without
\* override.
C6_Segments ==
    AllOpened =>
        OpenedModules(b) =
            IF CurFile.rubyPackage # <<>>
            THEN Split(CurFile.rubyPackage[1], DoubleColon)
            ELSE IF CurFile.package = <<>> THEN <<>>
            ELSE CamelCased(Split(CurFile.package, Dot))

C6_Witness ==
    /\ pc = "emit"
    /\ mi > Len(modules)
    /\ CurFile.rubyPackage = <<BazQux>>
    /\ OpenedModules(b) = << <<"B","a","z">>, <<"q","u","x","_","m">> >>

NumberOf(buf, tpl) == Cardinality({j \in 1..Len(buf) : buf[j].tpl = tpl})

RECURSIVE MethodsFrom(_, _)
MethodsFrom(file, s) ==
    IF s > Len(file.service) THEN 0
    ELSE Len(file.service[s].method) + MethodsFrom(file, s + 1)

\* C9: after the service line of a service come its rpc lines, one for each
\* method in declaration order, each with the method's name as written, the
\* two resolved types and the snake-cased name (SayHello: say_hello); a
\* finished file has as many rpc lines as its services have methods.
C9_RpcEntries ==
    /\ pc = "rpc" =>
         LET n == mti - 1 IN
         /\ b[Len(b) - n].tpl = "%s  service '%s'"
         /\ \A k \in 1..n :
              LET line == b[Len(b) - n + k]
                  method == CurMethods[k]
              IN /\ line.tpl = RpcTpl
                 /\ line.args[2] = method.name
                 /\ line.args[3] =
                      toRubyType(reg, fileToGoPackageName, method.inputType).value
                 /\ line.args[4] =
                      toRubyType(reg, fileToGoPackageName, method.outputType).value
                 /\ line.args[5] = snakeCase(method.name)
                 /\ method.name = SayHello => line.args[5] = say_hello
    /\ \A k \in 1..Len(resp) :
         NumberOf(resp[k].Content, RpcTpl) = MethodsFrom(Desc(genReq, genFiles[k]), 1)

C9_Witness ==
    /\ pc = "rpc"
    /\ CurFile.name = NameA
    /\ mti > Len(CurMethods)
    /\ Len(CurMethods) = 2
    /\ b[Len(b) - 1].args[2] = SayHello

\* The pairs of a request-list entry and a file of the same name
Matches(req) ==
    {<<k, i>> \in (1..Len(req.FileToGenerate)) \X (1..Len(req.ProtoFile)) :
        req.FileToGenerate[k] = Desc(req, i).name}

\* C10: a requested name that no file has is skipped: genFiles and the
\* written response have one entry for each match of a request-list entry
\* and a file; the run fails only on an empty request list or on an
\* unregistered type, never on a name without a file.
C10_SilentSkip ==
    /\ pc \notin {"main", "find"} => Len(genFiles) = Cardinality(Matches(genReq))
    /\ pc = "done" =>
         /\ Len(stdout) = 1
         /\ Len(stdout[1]) = Cardinality(Matches(genReq))
    /\ pc = "exit" => genReq.FileToGenerate = <<>>
    /\ pc = "panic" => Unresolved(genReq)

C10_Witness ==
    /\ pc = "done"
    /\ genReq.FileToGenerate = <<NameNone, NameNone>>
    /\ Len(genReq.ProtoFile) > 0
    /\ stdout = << <<>> >>

-----------------------------------------------------------------------------
(* Identifier-transformer runs: inputs drawn from bounded sets *)

MaxLen == 3

CaseAlphabet == {"a", "b", "A", "1", "_", LowerRune, UpperRune}

\* "_my_field_name_2", the example of camelCase's doc comment
DocExample ==
    <<"_","m","y","_","f","i","e","l","d","_","n","a","m","e","_","2">>

DocExampleCamel ==
    <<"X","M","y","F","i","e","l","d","N","a","m","e","_","2">>

Identifiers == SeqsUpTo(CaseAlphabet, MaxLen) \cup {DocExample}

\* The generator's state while only the identifier transformer runs.
GenIdle ==
    /\ pc = "idle"
    /\ genReq = Nil
    /\ reg = <<>>
    /\ genFiles = <<>>
    /\ fileToGoPackageName = <<>>
    /\ resp = <<>>
    /\ fi = 0
    /\ b = <<>>
    /\ indent = 0
    /\ modules = <<>>
    /\ mi = 0
    /\ si = 0
    /\ mti = 0
    /\ ci = 0
    /\ stdout = <<>>
    /\ failure = Nil

CaseInit ==
    /\ GenIdle
    /\ cpc = "in"
    /\ cin \in Identifiers
    /\ cval = cin
    /\ cs1 = <<>>

CaseSnake ==
    /\ cpc = "in"
    /\ cval' = snakeCase(cval)
    /\ cs1' = snakeCase(cval)
    /\ cpc' = "snake"
    /\ UNCHANGED <<cin, genvars>>

CaseCamel ==
    /\ cpc \in {"in", "snake"}
    /\ cval' = camelCase(cval)
    /\ cpc' = IF cpc = "in" THEN "camelOnly" ELSE "camel"
    /\ UNCHANGED <<cin, cs1, genvars>>

CaseSnakeAgain ==
    /\ cpc = "camel"
    /\ cval' = snakeCase(cval)
    /\ cpc' = "roundTrip"
    /\ UNCHANGED <<cin, cs1, genvars>>

CaseNext == CaseSnake \/ CaseCamel \/ CaseSnakeAgain

SpecCase == CaseInit /\ [][CaseNext]_vars

LeadingSep(s) == Len(s) > 0 /\ s[1] = "_"

SepBeforeDigit(s) == \E i \in 1..(Len(s) - 1) : s[i] = "_" /\ isASCIIDigit(s[i + 1])

C8_DocRule ==
    cpc = "camelOnly" =>
        /\ cval = camelCaseDoc(cin)
        /\ (cin = DocExample => cval = DocExampleCamel)

====
